---- MODULE Spec2Model ----
(***************************************************************************)
(* Human-in-the-loop workflows of the restock, demand-forecast and         *)
(* sales-monitor agents: triage router, triage interrupt handler, the      *)
(* llm_call / interrupt_handler action loop, and the preference store.     *)
(*                                                                         *)
(* Runtime rules taken from the graph library the nodes are written for:   *)
(*  - a node's returned update is applied only when the node returns;      *)
(*    side effects made while it runs (tool.invoke, store.put) are         *)
(*    immediate;                                                           *)
(*  - interrupt() suspends the session; on resume the interrupted node     *)
(*    function runs again from its first statement and the interrupt()     *)
(*    calls already answered return their recorded decisions in order;     *)
(*  - Command(goto=...) adds to the edges declared for the node, it does   *)
(*    not replace them;                                                    *)
(*  - the messages channel merges by message id (add_messages);            *)
(*  - a node receives the channels of the graph's state schema and no      *)
(*    other key.                                                           *)
(*                                                                         *)
(* Specifications: Spec follows one session from its trigger to its end    *)
(* (for the sales monitor up to the answer of /api/sales-monitor);         *)
(* SpecSales runs the sales monitor's interrupt_handler on the states its  *)
(* conditional edge hands it; SpecMem and SpecStore interleave the store   *)
(* operations of two sessions; SpecOrders applies the purchase-order       *)
(* tools to their order table.  Spec does not follow state["priority"] of  *)
(* restock and forecast nor the order table.                               *)
(***************************************************************************)
EXTENDS Integers, Sequences, FiniteSets, TLC

\* ---------------------------------------------------------------- bounds
MaxToolCalls == 2      \* tool calls the oracle may propose in one session
MaxTurns == 2          \* llm_call invocations in one session
MaxUpdates == 2        \* update_memory calls per concurrent session (SpecMem)

\* ------------------------------------------------------------- vocabulary
Domains == {"restock", "forecast", "sales"}

Classifications == {"monitor", "alert", "action_required"}

\* a classification value outside the router schema
InvalidClassification == "urgent"

DecisionKinds == {"accept", "edit", "ignore", "response"}

\* a response type that is none of the four kinds
InvalidKind == "other"

END == "__end__"

OriginalArgs == 1
EditedArgs == 2
ApprovalThreshold == 25

\* tools bound to the oracle in each domain
ToolNames(dom) ==
  CASE dom = "restock" ->
         {"find_suppliers_tool", "create_purchase_order_tool", "check_order_status_tool",
          "approve_purchase_order_tool", "cancel_purchase_order_tool",
          "get_supplier_performance_tool", "bulk_restock_tool", "Question", "Done"}
    [] dom = "forecast" ->
         {"analyze_demand_patterns_tool", "forecast_demand_tool", "analyze_stockout_risk_tool",
          "generate_reorder_recommendations_tool", "seasonal_demand_analysis_tool",
          "Question", "Done"}
    [] OTHER ->
         {"fetch_inventory_tool", "check_stock_levels_tool", "get_sales_analytics_tool",
          "create_order_tool", "update_inventory_tool", "Question", "Done"}

\* tools whose calls are sent to the reviewer (restock, forecast)
hitl_tools(dom) ==
  CASE dom = "restock" ->
         {"create_purchase_order_tool", "approve_purchase_order_tool", "bulk_restock_tool", "Question"}
    [] dom = "forecast" ->
         {"generate_reorder_recommendations_tool", "forecast_demand_tool", "Question"}
    [] OTHER -> {}

\* the decision kinds the interrupt request enables for a tool
config(name) ==
  IF name = "Question" THEN {"ignore", "response"} ELSE DecisionKinds

\* the decision kinds the alert notification enables
triage_config == {"ignore", "response"}

\* ------------------------------------------------------- preference store
AgentName(dom) ==
  CASE dom = "restock" -> "restock_agent"
    [] dom = "forecast" -> "demand_forecast"
    [] OTHER -> "sales_monitor"

TriageNs(dom) == <<AgentName(dom), "triage_preferences">>

\* namespaces llm_call reads (and, in restock and forecast, seeds)
LlmNamespaces(dom) ==
  CASE dom = "restock" ->
         {<<"restock_agent", "restock_preferences">>, <<"restock_agent", "supplier_preferences">>,
          <<"restock_agent", "learned_patterns">>}
    [] dom = "forecast" ->
         {<<"demand_forecast", "forecasting_preferences">>, <<"demand_forecast", "analytics_preferences">>,
          <<"demand_forecast", "learned_patterns">>}
    [] OTHER -> {<<"sales_monitor", "inventory_preferences">>}

Line(event, subject) == [event |-> event, subject |-> subject]

DefaultProfile(ns) == {Line("default", ns[2])}

\* variant: get_memory returns the default without storing it
get_memory_mut(st, ns) == st

\* get_memory of restock and forecast: seeds the default on a miss
get_memory(st, ns) ==
  IF ns \in DOMAIN st THEN st
  ELSE [n \in DOMAIN st \cup {ns} |-> IF n = ns THEN DefaultProfile(ns) ELSE st[n]]

\* get_memory of the sales monitor: returns the default, stores nothing
sales_get_memory(st, ns) == st

SeedAll(st, nss) ==
  [n \in DOMAIN st \cup nss |-> IF n \in DOMAIN st THEN st[n] ELSE DefaultProfile(n)]

\* the profile a well-behaved revision oracle returns: what it was shown
\* plus its own addition
Revise(profile, line) == profile \cup {line}

\* update_memory: store.get, oracle revision, store.put
update_memory(st, ns, line) == [st EXCEPT ![ns] = Revise(@, line)]

\* namespace updated after an edit / ignore / response decision on a tool;
\* <<>> where the branch makes no update
EditNs(dom, name) ==
  CASE name \in {"create_purchase_order_tool", "approve_purchase_order_tool"} ->
         <<"restock_agent", "restock_preferences">>
    [] name = "bulk_restock_tool" -> <<"restock_agent", "supplier_preferences">>
    [] name \in {"generate_reorder_recommendations_tool", "forecast_demand_tool"} ->
         <<"demand_forecast", "forecasting_preferences">>
    [] OTHER -> <<>>

IgnoreNs(dom, name) ==
  CASE name = "bulk_restock_tool" -> <<"restock_agent", "supplier_preferences">>
    [] OTHER -> TriageNs(dom)

ResponseNs(dom, name) ==
  IF name = "Question" THEN <<>> ELSE EditNs(dom, name)

\* --------------------------------------------------------------- messages
Msg(role, id, content, tcs, tcid, args) ==
  [role |-> role, id |-> id, content |-> content, tool_calls |-> tcs,
   tool_call_id |-> tcid, args |-> args]

UserMsg(content) == Msg("user", 0, content, <<>>, 0, 0)

\* a tool message; args is what the tool ran with (0: nothing ran)
ToolMsg(tcid, content, args) == Msg("tool", 0, content, <<>>, tcid, args)

AIMsg(id, tcs) == Msg("ai", id, "", tcs, 0, 0)

ToolCall(id, name, args) == [id |-> id, name |-> name, args |-> args]

RECURSIVE IndexOfId(_, _, _)
IndexOfId(msgs, id, i) ==
  IF i > Len(msgs) THEN 0
  ELSE IF msgs[i].id = id THEN i
  ELSE IndexOfId(msgs, id, i + 1)

\* variant: a reducer that appends every message, whatever its id
add_messages_mut(left, right) == left \o right

\* the messages reducer: a message whose id is already present replaces
\* that message in place, any other message is appended (id 0: fresh id)
RECURSIVE add_messages(_, _)
add_messages(left, right) ==
  IF right = <<>> THEN left
  ELSE LET m == Head(right)
           i == IF m.id = 0 THEN 0 ELSE IndexOfId(left, m.id, 1)
       IN add_messages(IF i = 0 THEN Append(left, m) ELSE [left EXCEPT ![i] = m],
                       Tail(right))

\* ------------------------------------------------------------------ state
VARIABLES
  domain,                   \* which agent this session runs
  pc,                       \* node about to run, END, or "error"
  classification_decision,  \* state["classification_decision"]
  messages,                 \* state["messages"]
  store,                    \* the preference store: namespace -> profile
  suspended,                \* an interrupt is awaiting the reviewer
  resume,                   \* decisions recorded for the running node
  hIdx,                     \* position of the handler's for loop
  hIntr,                    \* interrupt() calls made in this run of the node
  result,                   \* the handler's result list
  toolLog,                  \* every tool.invoke, in order
  memLog,                   \* every update_memory call, in order
  resolved,                 \* every decision branch the handlers entered
  interruptLog,             \* every interrupt request sent to the reviewer
  llmCalls,                 \* invocations of llm_call
  used,                     \* tool calls proposed so far
  doneSeen,                 \* an assistant message contained Done
  lastStep,                 \* what the last completed node run did
  mpc, mread, mresult, mdone, mprior,  \* concurrent store sessions (SpecMem, SpecStore)
  raised,                   \* what made the session abort
  runStart,                 \* tool log, store and conversation when the current node run began
  priority,                 \* state["priority"], followed for the sales monitor
  trigger,                  \* the monitor type of the request behind the session
  api,                      \* what /api/sales-monitor answered
  stock,                    \* quantity_available of the item update_inventory_tool sets
  MOCK_PURCHASE_ORDERS,     \* the purchase orders the restock tools keep, by PO number
  observation               \* what the last purchase-order tool call returned

wfvars == <<domain, pc, classification_decision, messages, store, suspended, resume,
            hIdx, hIntr, result, toolLog, memLog, resolved, interruptLog, llmCalls,
            used, doneSeen, lastStep, raised, runStart, priority, trigger, api, stock>>

memvars == <<mpc, mread, mresult, mdone, mprior>>

vars == <<domain, pc, classification_decision, messages, store, suspended, resume,
          hIdx, hIntr, result, toolLog, memLog, resolved, interruptLog, llmCalls,
          used, doneSeen, lastStep, mpc, mread, mresult, mdone, mprior, raised, runStart,
          priority, trigger, api, stock, MOCK_PURCHASE_ORDERS, observation>>

ordvars == <<MOCK_PURCHASE_ORDERS, observation>>

Sessions == {1, 2}

\* the request types run_sales_monitor builds a trigger for
MonitorTypes == {"manual_check", "low_stock", "sales_analytics"}

\* result.priority of the router schema
Priorities == {"low", "medium", "high", "critical"}

\* the quantities the item may have on hand when a session starts
StockLevels == {0, 60}

\* no purchase-order tool was called yet
NoObservation == [tool |-> "none", kind |-> "none", po |-> 0]

\* no answer sent yet
NoResponse == [success |-> FALSE, classification |-> "none", priority |-> "none",
               messages |-> <<>>, error |-> "none"]

NoStep == [node |-> "none", before |-> <<>>, after |-> <<>>, decisions |-> <<>>]

\* nothing raised so far
NotRaised == [node |-> "none", what |-> "none"]

\* an exception of kind what leaves node
Raised(node, what) == [node |-> node, what |-> what]

\* the tool log, store and conversation a node run starts from
RunSnapshot(tl, st, msgs) == [toolLog |-> tl, store |-> st, messages |-> msgs]

Init ==
  /\ domain \in Domains
  /\ pc = "triage_router"
  /\ classification_decision = "none"
  /\ priority = "none"
  /\ trigger \in (IF domain = "sales" THEN MonitorTypes ELSE {"none"})
  /\ api = NoResponse
  /\ stock \in (IF domain = "sales" THEN StockLevels ELSE {0})
  /\ MOCK_PURCHASE_ORDERS = <<>>
  /\ observation = NoObservation
  /\ messages = <<>>
  /\ store = <<>>
  /\ suspended = FALSE
  /\ resume = <<>>
  /\ hIdx = 1
  /\ hIntr = 0
  /\ result = <<>>
  /\ toolLog = <<>>
  /\ memLog = <<>>
  /\ resolved = <<>>
  /\ interruptLog = <<>>
  /\ llmCalls = 0
  /\ used = 0
  /\ doneSeen = FALSE
  /\ lastStep = NoStep
  /\ mpc = [s \in Sessions |-> "idle"]
  /\ mread = [s \in Sessions |-> {}]
  /\ mresult = [s \in Sessions |-> {}]
  /\ mdone = [s \in Sessions |-> 0]
  /\ mprior = {}
  /\ raised = NotRaised
  /\ runStart = RunSnapshot(<<>>, <<>>, <<>>)

\* ------------------------------------------------------------ the oracle
\* the tool names the decision oracle draws from in this model: one tool of
\* each kind the handlers tell apart (executed directly, reviewed with all
\* four decisions enabled, Question, Done)
OracleTools(dom) ==
  CASE dom = "restock" ->
         {"find_suppliers_tool", "create_purchase_order_tool", "Question", "Done"}
    [] dom = "forecast" ->
         {"analyze_demand_patterns_tool", "forecast_demand_tool", "Question", "Done"}
    [] OTHER ->
         {"check_stock_levels_tool", "create_order_tool", "update_inventory_tool",
          "Question", "Done"}

\* the arguments the oracle proposes (for update_inventory_tool: new_quantity)
OracleArgs(name) ==
  IF name = "update_inventory_tool" THEN {ApprovalThreshold, ApprovalThreshold + 1}
  ELSE {OriginalArgs}

OracleCalls(dom) ==
  UNION {{[name |-> n, args |-> a] : a \in OracleArgs(n)} : n \in OracleTools(dom)}

\* the classification oracle call raises instead of returning a result
OracleFailure == "oracle_failure"

\* what llm_router.invoke may yield
RouterOutcomes == Classifications \cup {InvalidClassification, OracleFailure}

\* how a tool.invoke may end
ToolOutcomes == {"returns", "raises"}

\* how the llm.invoke inside update_memory may end
RevisionOutcomes == {"returns", "raises"}

\* what the reviewer may send back
ReviewerResponses(dom) ==
  IF dom = "sales"
  THEN {[type |-> "yes", args |-> 0], [type |-> "no", args |-> 0]}
  ELSE {[type |-> k, args |-> IF k = "edit" THEN EditedArgs ELSE 0] :
          k \in DecisionKinds \cup {InvalidKind}}

\* ----------------------------------------------------------- small helpers
LastMessage == messages[Len(messages)]

LastToolCalls == LastMessage.tool_calls

Invocation(tc, args) == [id |-> tc.id, name |-> tc.name, args |-> args]

MemCall(ns, id) == [ns |-> ns, id |-> id]

\* a decision branch entered for the call id of tool name
Decision(id, name, response) ==
  [id |-> id, name |-> name, type |-> response.type, args |-> response.args]

Step(node, after, decisions) ==
  [node |-> node, before |-> messages, after |-> after, decisions |-> decisions]

ResetHandler ==
  /\ hIdx' = 1
  /\ hIntr' = 0
  /\ result' = <<>>

\* variant: a node keeps running past interrupt()
Running_mut == TRUE

\* interrupt() with no recorded decision stops the node that called it; no
\* node of the session runs until the reviewer's decision arrives
Running == ~suspended

\* a node raises: its update is dropped, the session aborts
Abort ==
  /\ pc' = "error"
  /\ suspended' = FALSE
  /\ ResetHandler

\* -------------------------------------------------------- triage routers
\* where restock_triage_router / forecast_triage_router send a classification
triage_goto(c) ==
  CASE c \in {"action_required", "monitor"} -> "agent"
    [] c = "alert" -> "triage_interrupt_handler"
    [] OTHER -> "raise"

\* the conditional edge declared on the router node
triage_edge(c) ==
  CASE c \in {"action_required", "monitor"} -> "agent"
    [] c = "alert" -> "triage_interrupt_handler"
    [] OTHER -> "raise"

\* restock_triage_router and forecast_triage_router
triage_router(c) ==
  /\ pc = "triage_router"
  /\ domain # "sales"
  /\ store' = get_memory(store, TriageNs(domain))
  /\ IF c = OracleFailure \/ triage_goto(c) = "raise"
     THEN /\ Abort
          /\ raised' = Raised("triage_router", IF c = OracleFailure THEN "oracle" ELSE "ValueError")
          /\ UNCHANGED <<classification_decision, priority, messages, lastStep, runStart>>
     ELSE /\ classification_decision' = c
          /\ messages' = IF triage_goto(c) = "agent"
                         THEN add_messages(messages, <<UserMsg(c)>>)
                         ELSE messages
          /\ pc' = IF "agent" \in {triage_goto(c), triage_edge(c)}
                   THEN "llm_call" ELSE "triage_interrupt_handler"
          /\ lastStep' = Step("triage_router", messages', <<>>)
          /\ runStart' = RunSnapshot(toolLog, store', messages')
          /\ UNCHANGED <<suspended, hIdx, hIntr, result, raised, priority>>
  /\ UNCHANGED <<domain, trigger, api, ordvars, stock, resume, toolLog, memLog,
                 resolved, interruptLog, llmCalls, used, doneSeen, mpc, mread, mresult,
                 mdone, mprior>>

\* the branch inventory_triage_router takes for a classification
inventory_branch(c) ==
  IF c = "action_required" THEN "action_required"
  ELSE IF c = "alert" THEN "alert"
  ELSE "monitor"

\* inventory_triage_router: every branch goes to response_agent
inventory_triage_router(c, p) ==
  /\ pc = "triage_router"
  /\ domain = "sales"
  /\ IF c = OracleFailure
     THEN /\ Abort
          /\ raised' = Raised("triage_router", "oracle")
          /\ UNCHANGED <<classification_decision, priority, messages, lastStep, runStart>>
     ELSE /\ classification_decision' = c
          /\ priority' = p
          /\ messages' = add_messages(messages, <<UserMsg(inventory_branch(c))>>)
          /\ pc' = "llm_call"
          /\ lastStep' = Step("triage_router", messages', <<>>)
          /\ runStart' = RunSnapshot(toolLog, store, messages')
          /\ UNCHANGED <<suspended, hIdx, hIntr, result, raised>>
  /\ UNCHANGED <<domain, trigger, api, ordvars, stock, store, resume, toolLog, memLog,
                 resolved, interruptLog, llmCalls, used, doneSeen, mpc, mread, mresult,
                 mdone, mprior>>

\* ------------------------------------------------ triage interrupt handler
\* restock_interrupt_handler / forecast_interrupt_handler up to interrupt():
\* no decision recorded yet, the request goes to the reviewer
triage_interrupt ==
  /\ pc = "triage_interrupt_handler"
  /\ Running
  /\ resume = <<>>
  /\ suspended' = TRUE
  /\ interruptLog' = Append(interruptLog,
        [node |-> "triage_interrupt_handler", id |-> 0, action |-> classification_decision,
         allowed |-> triage_config])
  /\ UNCHANGED <<domain, trigger, api, ordvars, stock, pc, classification_decision,
                 priority, messages, store, resume, hIdx, hIntr, result, toolLog,
                 memLog, resolved, llmCalls, used, doneSeen, lastStep, mpc, mread,
                 mresult, mdone, mprior, raised, runStart>>

\* the goto the triage interrupt handler returns for a response type
triage_handler_goto(type) ==
  CASE type = "response" -> "agent"
    [] type = "ignore" -> END
    [] OTHER -> "raise"

\* the conditional edge declared on the triage interrupt handler:
\* "agent" if state.get("messages") else END
triage_handler_edge(msgs) == IF msgs # <<>> THEN "agent" ELSE END

\* variant: the handler hands over the reviewer's note alone
TriageMessages_mut(type) == <<UserMsg(type)>>

\* the messages list the triage interrupt handler builds: the alert
\* notification first, then the note of the reviewer's decision (the
\* feedback for response, the ignore note for ignore)
TriageMessages(type) == <<UserMsg("alert notification"), UserMsg(type)>>

\* restock_interrupt_handler / forecast_interrupt_handler run again after
\* the reviewer answered
triage_resolve(revision) ==
  /\ pc = "triage_interrupt_handler"
  /\ Running
  /\ resume # <<>>
  /\ LET response == resume[1]
         goto == triage_handler_goto(response.type)
         msgs == TriageMessages(response.type)
         ns == TriageNs(domain)
         memory_raises == ns \notin DOMAIN store \/ revision = "raises"
     IN /\ resolved' = Append(resolved, Decision(0, "triage", response))
        /\ memLog' = IF goto # "raise" THEN Append(memLog, MemCall(ns, 0)) ELSE memLog
        /\ IF goto = "raise" \/ memory_raises
           THEN /\ Abort
                /\ raised' = Raised("triage_interrupt_handler",
                                    IF goto = "raise" THEN "ValueError"
                                    ELSE IF ns \notin DOMAIN store THEN "AttributeError"
                                    ELSE "oracle")
                /\ UNCHANGED <<messages, store, lastStep, resume, runStart>>
           ELSE /\ store' = update_memory(store, ns, Line(response.type, "alert"))
                /\ messages' = add_messages(messages, msgs)
                /\ pc' = IF "agent" \in {goto, triage_handler_edge(messages')}
                         THEN "llm_call" ELSE END
                /\ lastStep' = Step("triage_interrupt_handler", messages', resume)
                /\ resume' = <<>>
                /\ runStart' = RunSnapshot(toolLog, store', messages')
                /\ UNCHANGED <<suspended, hIdx, hIntr, result, raised>>
  /\ UNCHANGED <<domain, trigger, api, ordvars, stock, classification_decision,
                 priority, toolLog, interruptLog, llmCalls, used, doneSeen, mpc, mread,
                 mresult, mdone, mprior>>

\* the reviewer answers the pending interrupt; the interrupted node will
\* run again from its first statement
Resume(d) ==
  /\ suspended
  /\ pc \in {"triage_interrupt_handler", "interrupt_handler"}
  /\ suspended' = FALSE
  /\ resume' = Append(resume, d)
  /\ runStart' = RunSnapshot(toolLog, store, messages)
  /\ UNCHANGED <<domain, trigger, api, ordvars, stock, pc, classification_decision,
                 priority, messages, store, hIdx, hIntr, result, toolLog, memLog,
                 resolved, interruptLog, llmCalls, used, doneSeen, lastStep, mpc, mread,
                 mresult, mdone, mprior, raised>>

\* ------------------------------------------------------- the action loop
\* the conditional edge after llm_call: the for loop returns on its first
\* iteration, so only the first tool call is looked at; with no tool call
\* the function falls through and returns None
should_continue(msgs) ==
  LET last_message == msgs[Len(msgs)]
  IN IF last_message.tool_calls = <<>> THEN "None"
     ELSE IF last_message.tool_calls[1].name = "Done" THEN END
     ELSE "interrupt_handler"

\* variant: the binding lets the oracle answer without any tool call
tool_choice_required_mut(calls) == TRUE

\* bind_tools(tools, tool_choice="required"): the oracle's answer carries at
\* least one tool call; the number of calls is not capped
tool_choice_required(calls) == Len(calls) >= 1

\* the keys of the sales monitor's graph state: InventoryState adds three
\* keys to the messages key of MessagesState
InventoryState == {"messages", "inventory_trigger", "classification_decision", "priority"}

\* llm_call: read (and seed) the profiles, ask the oracle, append its
\* assistant message; then the conditional edge.  The sales monitor's
\* llm_call takes the store from state["store"], a key its state does not
\* have: the lookup raises before the oracle is asked
llm_call(reply) ==
  /\ pc = "llm_call"
  /\ llmCalls < MaxTurns
  /\ used + Len(reply.calls) <= MaxToolCalls
  /\ reply.ok => tool_choice_required(reply.calls)
  /\ llmCalls' = llmCalls + 1
  /\ IF domain = "sales" /\ "store" \notin InventoryState
     THEN /\ Abort
          /\ raised' = Raised("llm_call", "KeyError")
          /\ UNCHANGED <<store, messages, doneSeen, used, lastStep, runStart>>
     ELSE /\ store' = IF domain = "sales"
                      THEN sales_get_memory(store, <<"sales_monitor", "inventory_preferences">>)
                      ELSE SeedAll(store, LlmNamespaces(domain))
          /\ IF ~reply.ok
             THEN /\ Abort
                  /\ raised' = Raised("llm_call", "oracle")
                  /\ UNCHANGED <<messages, doneSeen, used, lastStep, runStart>>
             ELSE LET calls == reply.calls
                      tcs == [i \in 1..Len(calls) |->
                                ToolCall(used + i, calls[i].name, calls[i].args)]
                      msgs == add_messages(messages, <<AIMsg(llmCalls + 1, tcs)>>)
                      branch == should_continue(msgs)
                  IN /\ messages' = msgs
                     /\ doneSeen' = (doneSeen \/ \E i \in 1..Len(calls) : calls[i].name = "Done")
                     /\ used' = used + Len(calls)
                     /\ pc' = IF branch = "None" THEN "error" ELSE branch
                     /\ raised' = IF branch = "None" THEN Raised("llm_call", "KeyError")
                                  ELSE raised
                     /\ lastStep' = Step("llm_call", msgs, <<>>)
                     /\ runStart' = RunSnapshot(toolLog, store', msgs)
                     /\ UNCHANGED <<suspended, hIdx, hIntr, result>>
  /\ UNCHANGED <<domain, trigger, api, ordvars, stock, classification_decision,
                 priority, resume, toolLog, memLog, resolved, interruptLog, mpc, mread,
                 mresult, mdone, mprior>>

\* variant: the handler executes every tool call directly
needs_interrupt_mut(dom, name) == FALSE

\* the test at the head of the handler's loop body: a tool call goes to the
\* reviewer unless `tool_call["name"] not in hitl_tools`
needs_interrupt(dom, name) == name \in hitl_tools(dom)

\* interrupt_handler (restock, forecast), one pass of the for loop over a
\* tool that is not in hitl_tools: executed directly
handler_direct(outcome) ==
  /\ pc = "interrupt_handler"
  /\ domain # "sales"
  /\ Running
  /\ hIdx <= Len(LastToolCalls)
  /\ LET tool_call == LastToolCalls[hIdx]
     IN /\ ~needs_interrupt(domain, tool_call.name)
        /\ toolLog' = Append(toolLog, Invocation(tool_call, tool_call.args))
        /\ IF outcome = "raises"
           THEN /\ Abort
                /\ raised' = Raised("interrupt_handler", "tool")
           ELSE /\ result' = Append(result, ToolMsg(tool_call.id, "observation", tool_call.args))
                /\ hIdx' = hIdx + 1
                /\ UNCHANGED <<pc, suspended, hIntr, raised>>
  /\ UNCHANGED <<domain, trigger, api, ordvars, stock, classification_decision,
                 priority, messages, store, resume, memLog, resolved, interruptLog,
                 llmCalls, used, doneSeen, lastStep, mpc, mread, mresult, mdone, mprior,
                 runStart>>

\* interrupt_handler reaches interrupt() for a reviewed tool and no decision
\* is recorded for this call: the request is sent and the session suspends;
\* what this run of the node held locally is dropped
handler_interrupt ==
  /\ pc = "interrupt_handler"
  /\ domain # "sales"
  /\ Running
  /\ hIdx <= Len(LastToolCalls)
  /\ LET tool_call == LastToolCalls[hIdx]
     IN /\ needs_interrupt(domain, tool_call.name)
        /\ hIntr + 1 > Len(resume)
        /\ interruptLog' = Append(interruptLog,
              [node |-> "interrupt_handler", id |-> tool_call.id, action |-> tool_call.name,
               allowed |-> config(tool_call.name)])
  /\ suspended' = TRUE
  /\ ResetHandler
  /\ UNCHANGED <<domain, trigger, api, ordvars, stock, pc, classification_decision,
                 priority, messages, store, resume, toolLog, memLog, resolved, llmCalls,
                 used, doneSeen, lastStep, mpc, mread, mresult, mdone, mprior, raised,
                 runStart>>

\* variant: the ignore branch runs the tool as well
Executes_mut(name, type) ==
  \/ type \in {"accept", "ignore"}
  \/ type = "edit" /\ name # "Question"

\* does the branch taken for this response type invoke the tool
Executes(name, type) ==
  \/ type = "accept"
  \/ type = "edit" /\ name # "Question"

\* does the branch taken for this response type raise
Raises(name, type) == type = "edit" /\ name = "Question"

\* the namespace update_memory is called on in the branch (<<>>: none)
MemNs(dom, name, type) ==
  CASE type = "edit" -> EditNs(dom, name)
    [] type = "ignore" -> IgnoreNs(dom, name)
    [] type = "response" -> ResponseNs(dom, name)
    [] OTHER -> <<>>

\* variant: an edited call still runs with the arguments the oracle proposed
InvokeArgs_mut(tool_call, response) == tool_call.args

\* the arguments the branch passes to tool.invoke
InvokeArgs(tool_call, response) ==
  IF response.type = "edit" THEN response.args ELSE tool_call.args

\* the copy of the assistant message an edit appends to result: the edited
\* call is filtered out and added again, with the new arguments, at the end
EditedCopy(ai_message, tool_call, edited_args) ==
  [ai_message EXCEPT !.tool_calls =
     Append(SelectSeq(ai_message.tool_calls, LAMBDA tc : tc.id # tool_call.id),
            ToolCall(tool_call.id, tool_call.name, edited_args))]

\* what the branch appends to result
ResultMsgs(ai_message, tool_call, response) ==
  CASE response.type = "accept" ->
         <<ToolMsg(tool_call.id, "observation", InvokeArgs(tool_call, response))>>
    [] response.type = "edit" ->
         <<EditedCopy(ai_message, tool_call, response.args)>>
           \o (IF Executes(tool_call.name, "edit")
               THEN <<ToolMsg(tool_call.id, "observation", InvokeArgs(tool_call, response))>>
               ELSE <<>>)
    [] response.type = "ignore" -> <<ToolMsg(tool_call.id, "ignored", 0)>>
    [] response.type = "response" -> <<ToolMsg(tool_call.id, "feedback", 0)>>
    [] OTHER -> <<>>

\* interrupt_handler after interrupt() returned the decision recorded for
\* this call: the if / elif chain on response["type"]; in the edit branch
\* tool.invoke comes before update_memory
handler_decision(outcome, revision) ==
  /\ pc = "interrupt_handler"
  /\ domain # "sales"
  /\ Running
  /\ hIdx <= Len(LastToolCalls)
  /\ LET tool_call == LastToolCalls[hIdx]
         response == resume[hIntr + 1]
         ns == MemNs(domain, tool_call.name, response.type)
         value_error == Raises(tool_call.name, response.type)
         runs == Executes(tool_call.name, response.type)
         tool_raises == runs /\ outcome = "raises"
         calls_memory == ns # <<>> /\ ~value_error /\ ~tool_raises
         memory_raises == calls_memory /\ (ns \notin DOMAIN store \/ revision = "raises")
     IN /\ needs_interrupt(domain, tool_call.name)
        /\ hIntr + 1 <= Len(resume)
        /\ resolved' = Append(resolved, Decision(tool_call.id, tool_call.name, response))
        /\ toolLog' = IF runs
                      THEN Append(toolLog, Invocation(tool_call, InvokeArgs(tool_call, response)))
                      ELSE toolLog
        /\ memLog' = IF calls_memory THEN Append(memLog, MemCall(ns, tool_call.id)) ELSE memLog
        /\ store' = IF calls_memory /\ ~memory_raises
                    THEN update_memory(store, ns, Line(response.type, tool_call.name))
                    ELSE store
        /\ IF value_error \/ tool_raises \/ memory_raises
           THEN /\ Abort
                /\ raised' = Raised("interrupt_handler",
                                    IF value_error THEN "ValueError"
                                    ELSE IF tool_raises THEN "tool"
                                    ELSE IF ns \notin DOMAIN store THEN "AttributeError"
                                    ELSE "oracle")
           ELSE /\ result' = result \o ResultMsgs(LastMessage, tool_call, response)
                /\ hIdx' = hIdx + 1
                /\ hIntr' = hIntr + 1
                /\ UNCHANGED <<pc, suspended, raised>>
  /\ UNCHANGED <<domain, trigger, api, ordvars, stock, classification_decision,
                 priority, messages, resume, interruptLog, llmCalls, used, doneSeen,
                 lastStep, mpc, mread, mresult, mdone, mprior, runStart>>

\* where the action handler's Command sends the session
handler_goto == "llm_call"

\* the edge declared from interrupt_handler in agent_builder (restock, forecast)
handler_edge == "llm_call"

\* interrupt_handler returns: the update is merged into the conversation
handler_return ==
  /\ pc = "interrupt_handler"
  /\ domain # "sales"
  /\ Running
  /\ hIdx > Len(LastToolCalls)
  /\ messages' = add_messages(messages, result)
  /\ pc' = IF "llm_call" \in {handler_goto, handler_edge} THEN "llm_call" ELSE END
  /\ lastStep' = Step("interrupt_handler", messages', resume)
  /\ resume' = <<>>
  /\ runStart' = RunSnapshot(toolLog, store, messages')
  /\ ResetHandler
  /\ UNCHANGED <<domain, trigger, api, ordvars, stock, classification_decision,
                 priority, store, suspended, toolLog, memLog, resolved, interruptLog,
                 llmCalls, used, doneSeen, mpc, mread, mresult, mdone, mprior, raised>>

\* ---------------------------------------- the sales monitor's handler
\* does the sales interrupt_handler call interrupt() for this tool call
sales_interrupts(tool_call) ==
  \/ tool_call.name = "Question"
  \/ tool_call.name = "create_order_tool"
  \/ tool_call.name = "update_inventory_tool" /\ tool_call.args > ApprovalThreshold

\* approval_response.lower() in ["yes", "approve", "approved"]
Approved(response) == response.type \in {"yes", "approve", "approved"}

\* update_inventory_tool: the PUT sets the item's quantity_available to
\* new_quantity; the other tools leave it alone
update_inventory_tool(quantity, tool_call) ==
  IF tool_call.name = "update_inventory_tool" THEN tool_call.args ELSE quantity

\* sales interrupt_handler, a tool call executed without asking
sales_handler_direct(outcome) ==
  /\ pc = "interrupt_handler"
  /\ domain = "sales"
  /\ Running
  /\ hIdx <= Len(LastToolCalls)
  /\ LET tool_call == LastToolCalls[hIdx]
     IN /\ ~sales_interrupts(tool_call)
        /\ toolLog' = Append(toolLog, Invocation(tool_call, tool_call.args))
        /\ stock' = IF outcome = "returns" THEN update_inventory_tool(stock, tool_call)
                    ELSE stock
        /\ IF outcome = "raises"
           THEN /\ Abort
                /\ raised' = Raised("interrupt_handler", "tool")
           ELSE /\ result' = Append(result, ToolMsg(tool_call.id, "observation", tool_call.args))
                /\ hIdx' = hIdx + 1
                /\ UNCHANGED <<pc, suspended, hIntr, raised>>
  /\ UNCHANGED <<domain, trigger, api, ordvars, classification_decision, priority,
                 messages, store, resume, memLog, resolved, interruptLog, llmCalls,
                 used, doneSeen, lastStep, mpc, mread, mresult, mdone, mprior,
                 runStart>>

\* sales interrupt_handler reaches interrupt() with no recorded answer
sales_handler_interrupt ==
  /\ pc = "interrupt_handler"
  /\ domain = "sales"
  /\ Running
  /\ hIdx <= Len(LastToolCalls)
  /\ LET tool_call == LastToolCalls[hIdx]
     IN /\ sales_interrupts(tool_call)
        /\ hIntr + 1 > Len(resume)
        /\ interruptLog' = Append(interruptLog,
              [node |-> "interrupt_handler", id |-> tool_call.id, action |-> tool_call.name,
               allowed |-> {"yes", "no"}])
  /\ suspended' = TRUE
  /\ ResetHandler
  /\ UNCHANGED <<domain, trigger, api, ordvars, stock, pc, classification_decision,
                 priority, messages, store, resume, toolLog, memLog, resolved, llmCalls,
                 used, doneSeen, lastStep, mpc, mread, mresult, mdone, mprior, raised,
                 runStart>>

\* sales interrupt_handler after interrupt() returned the recorded answer
sales_handler_decision(outcome) ==
  /\ pc = "interrupt_handler"
  /\ domain = "sales"
  /\ Running
  /\ hIdx <= Len(LastToolCalls)
  /\ LET tool_call == LastToolCalls[hIdx]
         response == resume[hIntr + 1]
         runs == tool_call.name # "Question" /\ Approved(response)
     IN /\ sales_interrupts(tool_call)
        /\ hIntr + 1 <= Len(resume)
        /\ resolved' = Append(resolved, Decision(tool_call.id, tool_call.name, response))
        /\ toolLog' = IF runs THEN Append(toolLog, Invocation(tool_call, tool_call.args))
                      ELSE toolLog
        /\ stock' = IF runs /\ outcome = "returns"
                    THEN update_inventory_tool(stock, tool_call)
                    ELSE stock
        /\ IF runs /\ outcome = "raises"
           THEN /\ Abort
                /\ raised' = Raised("interrupt_handler", "tool")
           ELSE /\ result' = Append(result,
                     IF tool_call.name = "Question" THEN ToolMsg(tool_call.id, "human response", 0)
                     ELSE IF runs THEN ToolMsg(tool_call.id, "observation", tool_call.args)
                     ELSE ToolMsg(tool_call.id, "not approved", 0))
                /\ hIdx' = hIdx + 1
                /\ hIntr' = hIntr + 1
                /\ UNCHANGED <<pc, suspended, raised>>
  /\ UNCHANGED <<domain, trigger, api, ordvars, classification_decision, priority,
                 messages, store, resume, memLog, interruptLog, llmCalls, used,
                 doneSeen, lastStep, mpc, mread, mresult, mdone, mprior, runStart>>

\* the edges declared from interrupt_handler in the sales agent_builder: none
sales_handler_edge == END

\* sales interrupt_handler returns its tool responses
sales_handler_return ==
  /\ pc = "interrupt_handler"
  /\ domain = "sales"
  /\ Running
  /\ hIdx > Len(LastToolCalls)
  /\ messages' = add_messages(messages, result)
  /\ pc' = sales_handler_edge
  /\ lastStep' = Step("interrupt_handler", messages', resume)
  /\ resume' = <<>>
  /\ runStart' = RunSnapshot(toolLog, store, messages')
  /\ ResetHandler
  /\ UNCHANGED <<domain, trigger, api, ordvars, stock, classification_decision,
                 priority, store, suspended, toolLog, memLog, resolved, interruptLog,
                 llmCalls, used, doneSeen, mpc, mread, mresult, mdone, mprior, raised>>

\* ------------------------------------------------- the /api/sales-monitor endpoint
\* the hard-coded answer of run_sales_monitor's inner except branch
MockData(type) ==
  [success |-> TRUE,
   classification |-> IF type = "low_stock" THEN "action_required" ELSE "monitor",
   priority |-> CASE type = "manual_check" -> "low"
                  [] type = "low_stock" -> "high"
                  [] OTHER -> "medium",
   messages |-> <<"mock report">>,
   error |-> "none"]

\* the answer run_sales_monitor builds from the state invoke returned
SessionData ==
  [success |-> TRUE,
   classification |-> IF classification_decision = "none" THEN "unknown"
                      ELSE classification_decision,
   priority |-> IF priority = "none" THEN "unknown" ELSE priority,
   messages |-> [k \in 1..Len(messages) |-> messages[k].content],
   error |-> "none"]

\* run_sales_monitor once sales_monitor_agent.invoke has returned or raised:
\* the inner "except Exception" catches whatever the session raised and
\* answers with the mock data for the request's type
run_sales_monitor ==
  /\ domain = "sales"
  /\ api = NoResponse
  /\ stock \in (IF domain = "sales" THEN StockLevels ELSE {0})
  /\ MOCK_PURCHASE_ORDERS = <<>>
  /\ observation = NoObservation
  /\ pc \in {END, "error"}
  /\ api' = IF pc = "error" THEN MockData(trigger) ELSE SessionData
  /\ UNCHANGED <<domain, trigger, stock, ordvars, pc, classification_decision, priority,
                 messages, store, suspended, resume, hIdx, hIntr, result, toolLog,
                 memLog, resolved, interruptLog, llmCalls, used, doneSeen, lastStep,
                 mpc, mread, mresult, mdone, mprior, raised, runStart>>

\* ------------------------------------------------------------ the workflow
\* the tool-call lists an answer of the oracle may carry with n calls left
\* to propose
CallSeqs(dom, n) ==
  {<<>>} \cup UNION {[1..k -> OracleCalls(dom)] : k \in 1..n}

\* what llm_with_tools.invoke may yield: an answer, or an exception
OracleReplies(dom, n) ==
  {[ok |-> TRUE, calls |-> calls] : calls \in CallSeqs(dom, n)}
    \cup {[ok |-> FALSE, calls |-> <<>>]}

Next ==
  \/ \E c \in RouterOutcomes : triage_router(c)
  \/ \E c \in RouterOutcomes, p \in Priorities : inventory_triage_router(c, p)
  \/ triage_interrupt
  \/ \E d \in ReviewerResponses(domain) : Resume(d)
  \/ \E revision \in RevisionOutcomes : triage_resolve(revision)
  \/ \E reply \in OracleReplies(domain, MaxToolCalls - used) : llm_call(reply)
  \/ \E outcome \in ToolOutcomes : handler_direct(outcome)
  \/ handler_interrupt
  \/ \E outcome \in ToolOutcomes, revision \in RevisionOutcomes :
        handler_decision(outcome, revision)
  \/ handler_return
  \/ run_sales_monitor

Spec == Init /\ [][Next]_vars

\* ------------------------------ the sales monitor's interrupt_handler alone
\* The node applied to the states agent_builder's conditional edge hands it:
\* a conversation whose last message is an assistant message with tool
\* calls, the first of which is not Done.
InitSales ==
  /\ domain = "sales"
  /\ trigger \in MonitorTypes
  /\ classification_decision \in Classifications
  /\ priority \in Priorities
  /\ api = NoResponse
  /\ stock \in (IF domain = "sales" THEN StockLevels ELSE {0})
  /\ MOCK_PURCHASE_ORDERS = <<>>
  /\ observation = NoObservation
  /\ pc = "interrupt_handler"
  /\ \E calls \in CallSeqs("sales", MaxToolCalls) :
        LET tcs == [i \in 1..Len(calls) |-> ToolCall(i, calls[i].name, calls[i].args)]
            before == <<UserMsg(inventory_branch(classification_decision))>>
            msgs == Append(before, AIMsg(1, tcs))
        IN /\ should_continue(msgs) = "interrupt_handler"
           /\ messages = msgs
           /\ used = Len(calls)
           /\ doneSeen = (\E i \in 1..Len(calls) : calls[i].name = "Done")
           /\ lastStep = [node |-> "llm_call", before |-> before, after |-> msgs,
                          decisions |-> <<>>]
           /\ runStart = RunSnapshot(<<>>, <<>>, msgs)
  /\ llmCalls = 1
  /\ store = <<>>
  /\ suspended = FALSE
  /\ resume = <<>>
  /\ hIdx = 1
  /\ hIntr = 0
  /\ result = <<>>
  /\ toolLog = <<>>
  /\ memLog = <<>>
  /\ resolved = <<>>
  /\ interruptLog = <<>>
  /\ mpc = [s \in Sessions |-> "idle"]
  /\ mread = [s \in Sessions |-> {}]
  /\ mresult = [s \in Sessions |-> {}]
  /\ mdone = [s \in Sessions |-> 0]
  /\ mprior = {}
  /\ raised = NotRaised

NextSales ==
  \/ \E outcome \in ToolOutcomes : sales_handler_direct(outcome)
  \/ sales_handler_interrupt
  \/ \E d \in ReviewerResponses(domain) : Resume(d)
  \/ \E outcome \in ToolOutcomes : sales_handler_decision(outcome)
  \/ sales_handler_return
  \/ run_sales_monitor

SpecSales == InitSales /\ [][NextSales]_vars

\* ------------------------------------------- the purchase-order tools
\* purchase orders one run may create
MaxOrders == 2

\* the supplier the model orders from (amounts in cents, discounts in percent)
MOCK_SUPPLIER_DATA ==
  [SUPP001 |-> [products |-> {"Wireless Headphones", "Bluetooth Speaker", "USB Cable"},
                minimum_order |-> 50000,
                unit_cost |-> [p \in {"Wireless Headphones"} |-> 6500],
                bulk_discount |-> [p \in {"Wireless Headphones"} |-> 10]]]

\* default of calculate_bulk_price's min_bulk_qty
min_bulk_qty == 50

\* the arguments the calls are tried with: a known and an unknown supplier,
\* an item the supplier carries and one it does not, a quantity below the
\* minimum order, one above it and one that earns the bulk discount, a
\* well-formed and a malformed delivery date
SupplierIds == {"SUPP001", "SUPP404"}

ItemNames == {"Wireless Headphones", "Gaming Mouse"}

Quantities == {5, 10, 50}

DeliveryDates == {"2026-01-15", "next week"}

\* generate_po_number: a number no stored order has (timestamp plus random
\* suffix; orders are never removed)
generate_po_number(orders) == Cardinality(DOMAIN orders) + 1

calculate_bulk_price(unit_cost, quantity, bulk_discount) ==
  IF quantity >= min_bulk_qty THEN (unit_cost * (100 - bulk_discount)) \div 100
  ELSE unit_cost

\* why create_purchase_order_tool returns an error before storing anything
\* ("none": it does not); the malformed date makes strptime raise, which
\* the tool's except branch turns into an error string
create_error(supplier_id, item_name, quantity, delivery_date) ==
  IF supplier_id \notin DOMAIN MOCK_SUPPLIER_DATA THEN "supplier not found"
  ELSE LET supplier == MOCK_SUPPLIER_DATA[supplier_id]
       IN IF item_name \notin supplier.products THEN "item not carried"
          ELSE LET final_price == calculate_bulk_price(supplier.unit_cost[item_name],
                                                       quantity,
                                                       supplier.bulk_discount[item_name])
               IN IF final_price * quantity < supplier.minimum_order
                  THEN "below minimum order"
                  ELSE IF delivery_date \notin {"2026-01-15"} THEN "exception"
                  ELSE "none"

create_purchase_order_tool(supplier_id, item_name, quantity, delivery_date) ==
  LET error == create_error(supplier_id, item_name, quantity, delivery_date)
      po_number == generate_po_number(MOCK_PURCHASE_ORDERS)
      purchase_order == [supplier_id |-> supplier_id, item_name |-> item_name,
                         quantity |-> quantity, status |-> "Pending Approval",
                         approval_notes |-> "none", cancellation_reason |-> "none"]
  IN /\ IF error # "none"
        THEN /\ observation' = [tool |-> "create", kind |-> "error", po |-> 0]
             /\ UNCHANGED MOCK_PURCHASE_ORDERS
        ELSE /\ Cardinality(DOMAIN MOCK_PURCHASE_ORDERS) < MaxOrders
             /\ MOCK_PURCHASE_ORDERS' =
                  [n \in DOMAIN MOCK_PURCHASE_ORDERS \cup {po_number} |->
                     IF n = po_number THEN purchase_order ELSE MOCK_PURCHASE_ORDERS[n]]
             /\ observation' = [tool |-> "create", kind |-> "created", po |-> po_number]
     /\ UNCHANGED <<wfvars, memvars>>

\* variant: approval does not look at the order's status
approvable_mut(status) == TRUE

\* the status approve_purchase_order_tool requires
approvable(status) == status = "Pending Approval"

approve_purchase_order_tool(po_number, approval_notes) ==
  /\ IF po_number \notin DOMAIN MOCK_PURCHASE_ORDERS
     THEN /\ observation' = [tool |-> "approve", kind |-> "not found", po |-> po_number]
          /\ UNCHANGED MOCK_PURCHASE_ORDERS
     ELSE IF ~approvable(MOCK_PURCHASE_ORDERS[po_number].status)
     THEN /\ observation' = [tool |-> "approve", kind |-> "not pending", po |-> po_number]
          /\ UNCHANGED MOCK_PURCHASE_ORDERS
     ELSE /\ MOCK_PURCHASE_ORDERS' =
               [MOCK_PURCHASE_ORDERS EXCEPT ![po_number].status = "Approved - Sent to Supplier",
                                            ![po_number].approval_notes = approval_notes]
          /\ observation' = [tool |-> "approve", kind |-> "approved", po |-> po_number]
  /\ UNCHANGED <<wfvars, memvars>>

cancel_purchase_order_tool(po_number, cancellation_reason) ==
  /\ IF po_number \notin DOMAIN MOCK_PURCHASE_ORDERS
     THEN /\ observation' = [tool |-> "cancel", kind |-> "not found", po |-> po_number]
          /\ UNCHANGED MOCK_PURCHASE_ORDERS
     ELSE IF MOCK_PURCHASE_ORDERS[po_number].status \in {"Delivered", "Cancelled"}
     THEN /\ observation' = [tool |-> "cancel", kind |-> "cannot cancel", po |-> po_number]
          /\ UNCHANGED MOCK_PURCHASE_ORDERS
     ELSE /\ MOCK_PURCHASE_ORDERS' =
               [MOCK_PURCHASE_ORDERS EXCEPT ![po_number].status = "Cancelled",
                                            ![po_number].cancellation_reason =
                                               cancellation_reason]
          /\ observation' = [tool |-> "cancel", kind |-> "cancelled", po |-> po_number]
  /\ UNCHANGED <<wfvars, memvars>>

\* the notes and reasons the calls are tried with
Notes == {"ok"}

Reasons == {"duplicate"}

InitOrders == Init /\ domain = "restock"

NextOrders ==
  \/ \E supplier_id \in SupplierIds, item_name \in ItemNames, quantity \in Quantities,
        delivery_date \in DeliveryDates :
        create_purchase_order_tool(supplier_id, item_name, quantity, delivery_date)
  \/ \E po_number \in 1..MaxOrders, approval_notes \in Notes :
        approve_purchase_order_tool(po_number, approval_notes)
  \/ \E po_number \in 1..MaxOrders, cancellation_reason \in Reasons :
        cancel_purchase_order_tool(po_number, cancellation_reason)

SpecOrders == InitOrders /\ [][NextOrders]_vars

\* ------------------------------- concurrent update_memory on one namespace
SharedNs == <<"restock_agent", "triage_preferences">>

\* what session s adds in its k-th update
Addition(s, k) == Line("session", <<s, k>>)

PriorProfiles == {DefaultProfile(SharedNs), DefaultProfile(SharedNs) \cup {Line("learned", "earlier")}}

InitMem ==
  /\ domain = "restock"
  /\ pc = "llm_call"
  /\ classification_decision = "none"
  /\ priority = "none"
  /\ trigger \in (IF domain = "sales" THEN MonitorTypes ELSE {"none"})
  /\ api = NoResponse
  /\ stock \in (IF domain = "sales" THEN StockLevels ELSE {0})
  /\ MOCK_PURCHASE_ORDERS = <<>>
  /\ observation = NoObservation
  /\ messages = <<>>
  /\ mprior \in PriorProfiles
  /\ store = [n \in {SharedNs} |-> mprior]
  /\ suspended = FALSE
  /\ resume = <<>>
  /\ hIdx = 1
  /\ hIntr = 0
  /\ result = <<>>
  /\ toolLog = <<>>
  /\ memLog = <<>>
  /\ resolved = <<>>
  /\ interruptLog = <<>>
  /\ llmCalls = 0
  /\ used = 0
  /\ doneSeen = FALSE
  /\ lastStep = NoStep
  /\ mpc = [s \in Sessions |-> "idle"]
  /\ mread = [s \in Sessions |-> {}]
  /\ mresult = [s \in Sessions |-> {}]
  /\ mdone = [s \in Sessions |-> 0]
  /\ raised = NotRaised
  /\ runStart = RunSnapshot(<<>>, store, <<>>)

\* the namespace the concurrent sessions of a domain work on
ProfileNs(dom) ==
  IF dom = "sales" THEN <<"sales_monitor", "inventory_preferences">> ELSE TriageNs(dom)

\* store.put(namespace, "user_preferences", value)
store_put(st, ns, value) ==
  [n \in DOMAIN st \cup {ns} |-> IF n = ns THEN value ELSE st[n]]

\* update_memory (restock, forecast), first statement:
\* user_preferences = store.get(...); user_preferences.value raises when
\* nothing is stored
mem_get(s) ==
  /\ mpc[s] = "idle"
  /\ mdone[s] < MaxUpdates
  /\ domain # "sales"
  /\ IF ProfileNs(domain) \in DOMAIN store
     THEN /\ mread' = [mread EXCEPT ![s] = store[ProfileNs(domain)]]
          /\ mpc' = [mpc EXCEPT ![s] = "got"]
     ELSE /\ mpc' = [mpc EXCEPT ![s] = "raised"]
          /\ UNCHANGED mread
  /\ UNCHANGED <<mresult, mdone, mprior>>
  /\ UNCHANGED <<wfvars, ordvars>>

\* update_memory, second statement: result = llm.invoke(... current_profile ...)
\* with output as the profile the oracle returns
mem_revise(s, output) ==
  /\ mpc[s] = "got"
  /\ mresult' = [mresult EXCEPT ![s] = output]
  /\ mpc' = [mpc EXCEPT ![s] = "revised"]
  /\ UNCHANGED <<mread, mdone, mprior>>
  /\ UNCHANGED <<wfvars, ordvars>>

\* update_memory, last statement: store.put(..., result.preferences)
mem_put(s) ==
  /\ mpc[s] = "revised"
  /\ store' = store_put(store, ProfileNs(domain), mresult[s])
  /\ mpc' = [mpc EXCEPT ![s] = "idle"]
  /\ mdone' = [mdone EXCEPT ![s] = @ + 1]
  /\ UNCHANGED <<mread, mresult, mprior>>
  /\ UNCHANGED <<domain, trigger, api, ordvars, stock, pc, classification_decision,
                 priority, messages, suspended, resume, hIdx, hIntr, result, toolLog,
                 memLog, resolved, interruptLog, llmCalls, used, doneSeen, lastStep,
                 raised, runStart>>

NextMem ==
  \/ \E s \in Sessions : mem_get(s)
  \/ \E s \in Sessions : mem_revise(s, Revise(mread[s], Addition(s, mdone[s] + 1)))
  \/ \E s \in Sessions : mem_put(s)

SpecMem == InitMem /\ [][NextMem]_vars

\* ------------------- concurrent get_memory and update_memory on one profile
\* a profile the revision oracle returns that drops what it was shown
Truncate(profile, line) == {line}

\* the profiles the revision oracle may return: nothing in update_memory
\* constrains result.preferences
OracleRevisions(profile, line) == {Revise(profile, line), Truncate(profile, line)}

InitStore ==
  /\ domain \in Domains
  /\ pc = "llm_call"
  /\ classification_decision = "none"
  /\ priority = "none"
  /\ trigger \in (IF domain = "sales" THEN MonitorTypes ELSE {"none"})
  /\ api = NoResponse
  /\ stock \in (IF domain = "sales" THEN StockLevels ELSE {0})
  /\ MOCK_PURCHASE_ORDERS = <<>>
  /\ observation = NoObservation
  /\ messages = <<>>
  /\ mprior = {}
  /\ store = <<>>
  /\ suspended = FALSE
  /\ resume = <<>>
  /\ hIdx = 1
  /\ hIntr = 0
  /\ result = <<>>
  /\ toolLog = <<>>
  /\ memLog = <<>>
  /\ resolved = <<>>
  /\ interruptLog = <<>>
  /\ llmCalls = 0
  /\ used = 0
  /\ doneSeen = FALSE
  /\ lastStep = NoStep
  /\ mpc = [s \in Sessions |-> "idle"]
  /\ mread = [s \in Sessions |-> {}]
  /\ mresult = [s \in Sessions |-> {}]
  /\ mdone = [s \in Sessions |-> 0]
  /\ raised = NotRaised
  /\ runStart = RunSnapshot(<<>>, <<>>, <<>>)

\* get_memory, first statement: user_preferences = store.get(...)
gm_get(s) ==
  /\ mpc[s] = "idle"
  /\ IF ProfileNs(domain) \in DOMAIN store
     THEN /\ mread' = [mread EXCEPT ![s] = store[ProfileNs(domain)]]
          /\ mpc' = [mpc EXCEPT ![s] = "gm_hit"]
     ELSE /\ mread' = [mread EXCEPT ![s] = {}]
          /\ mpc' = [mpc EXCEPT ![s] = "gm_miss"]
  /\ UNCHANGED <<mresult, mdone, mprior>>
  /\ UNCHANGED <<wfvars, ordvars>>

\* get_memory, the rest: on a hit return the value read; on a miss restock
\* and forecast store the default and return it, the sales monitor returns
\* the default and stores nothing
gm_return(s) ==
  /\ mpc[s] \in {"gm_hit", "gm_miss"}
  /\ IF mpc[s] = "gm_hit"
     THEN /\ mresult' = [mresult EXCEPT ![s] = mread[s]]
          /\ UNCHANGED store
     ELSE /\ mresult' = [mresult EXCEPT ![s] = DefaultProfile(ProfileNs(domain))]
          /\ store' = IF domain = "sales" THEN sales_get_memory(store, ProfileNs(domain))
                      ELSE store_put(store, ProfileNs(domain),
                                     DefaultProfile(ProfileNs(domain)))
  /\ mpc' = [mpc EXCEPT ![s] = "idle"]
  /\ UNCHANGED <<mread, mdone, mprior>>
  /\ UNCHANGED <<domain, trigger, api, ordvars, stock, pc, classification_decision,
                 priority, messages, suspended, resume, hIdx, hIntr, result, toolLog,
                 memLog, resolved, interruptLog, llmCalls, used, doneSeen, lastStep,
                 raised, runStart>>

NextStore ==
  \/ \E s \in Sessions : gm_get(s)
  \/ \E s \in Sessions : gm_return(s)
  \/ \E s \in Sessions : mem_get(s)
  \/ \E s \in Sessions :
        \E output \in OracleRevisions(mread[s], Addition(s, mdone[s] + 1)) : mem_revise(s, output)
  \/ \E s \in Sessions : mem_put(s)

SpecStore == InitStore /\ [][NextStore]_vars

\* ================================================================ claims
Invoked(id) == \E j \in 1..Len(toolLog) : toolLog[j].id = id

Count(log, id) == Cardinality({j \in 1..Len(log) : log[j].id = id})

\* the decision branches entered for reviewed tools of restock and forecast
Reviewed == {i \in 1..Len(resolved) : resolved[i].name \in hitl_tools(domain)}

TriageResolved(type) ==
  \E i \in 1..Len(resolved) : resolved[i].name = "triage" /\ resolved[i].type = type

HasDone(m) == \E i \in 1..Len(m.tool_calls) : m.tool_calls[i].name = "Done"

InActionLoop == pc \in {"llm_call", "interrupt_handler"} \/ llmCalls > 0

\* C1 (as stated): for every reviewed action of the restock and forecast
\* handlers and each of the four decision kinds, the tool is invoked if and
\* only if the decision is accept or edit.
C1_Original ==
  \A i \in Reviewed :
    resolved[i].type \in DecisionKinds =>
      (Invoked(resolved[i].id) <=> resolved[i].type \in {"accept", "edit"})

\* C1 (amended): for every reviewed action other than Question the tool is
\* invoked if and only if the decision is accept or edit; for every reviewed
\* action, Question included, an ignore or response decision never invokes
\* the tool; an edit decision on Question invokes nothing.
C1_Amended ==
  \A i \in Reviewed :
    resolved[i].type \in DecisionKinds =>
      /\ resolved[i].name # "Question" =>
           (Invoked(resolved[i].id) <=> resolved[i].type \in {"accept", "edit"})
      /\ resolved[i].type \in {"ignore", "response"} => ~Invoked(resolved[i].id)
      /\ (resolved[i].name = "Question" /\ resolved[i].type = "edit") =>
           ~Invoked(resolved[i].id)

\* C1 witness: in one session an edited action ran and an ignored one did not
C1_Witness ==
  \E i, j \in Reviewed :
    /\ resolved[i].name # "Question" /\ resolved[i].type = "edit" /\ Invoked(resolved[i].id)
    /\ resolved[j].type = "ignore" /\ ~Invoked(resolved[j].id)

\* C2: over the life of a session every tool invocation and every
\* preference-store update happens exactly once per resolved action, also
\* across suspensions and for assistant messages with several tool calls.
C2_ExactlyOnce ==
  \A id \in 1..used : Count(toolLog, id) <= 1 /\ Count(memLog, id) <= 1

\* C3: once an assistant message contained Done, llm_call is never invoked
\* again in the session.
C3_NoOracleAfterDone == [][doneSeen => llmCalls' = llmCalls]_vars

\* C4: in every domain the action loop ends only through an assistant
\* message carrying Done; after the handler resolved a non-terminal action
\* control returns to llm_call.
C4_EndsOnlyThroughDone ==
  (pc = END /\ llmCalls > 0) =>
     \E k \in 1..Len(messages) :
        /\ messages[k].role = "ai"
        /\ HasDone(messages[k])
        /\ \A l \in (k + 1)..Len(messages) : messages[l].role # "ai"

\* C5: alert + ignore on the triage notification ends the session at once:
\* llm_call is never invoked, no tool runs, and exactly one update of
\* triage_preferences is recorded.
C5_IgnoreEndsSession ==
  TriageResolved("ignore") =>
     /\ llmCalls = 0
     /\ toolLog = <<>>
     /\ Cardinality({j \in 1..Len(memLog) : memLog[j].ns = TriageNs(domain)}) = 1

\* the decision kinds the request behind a decision branch enabled
AllowedFor(name) == IF name = "triage" THEN triage_config ELSE config(name)

\* C6: a decision whose kind the request's config does not enable, or that
\* is none of the four kinds, aborts the session and executes no tool.
C6_DisallowedDecisionAborts ==
  domain # "sales" =>
    \A i \in 1..Len(resolved) :
      resolved[i].type \notin AllowedFor(resolved[i].name) =>
         pc = "error" /\ ~Invoked(resolved[i].id)

TriageInterrupts ==
  {j \in 1..Len(interruptLog) : interruptLog[j].node = "triage_interrupt_handler"}

\* C8: in every domain an alert reaches the action loop only after a triage
\* interrupt was issued and answered; monitor and action_required enter the
\* loop with no triage interrupt.
C8_AlertReviewedFirst ==
  InActionLoop =>
    /\ classification_decision = "alert" =>
         (TriageInterrupts # {} /\ \E i \in 1..Len(resolved) : resolved[i].name = "triage")
    /\ classification_decision \in {"monitor", "action_required"} => TriageInterrupts = {}

\* the last completed node run was the resolving run of an interrupted node
Resolving == lastStep.node \in {"triage_interrupt_handler", "interrupt_handler"}
               /\ lastStep.decisions # <<>>

IsPrefix(a, b) == Len(a) <= Len(b) /\ SubSeq(b, 1, Len(a)) = a

AdditionsDone == {Addition(s, k) : s \in Sessions, k \in 1..MaxUpdates} \cap
                 UNION {{Addition(s, k) : k \in 1..mdone[s]} : s \in Sessions}

\* C10: for any interleaving of two sessions running update_memory on the
\* same namespace, with a revision oracle that returns what it was shown
\* plus its own addition, the stored profile contains the prior content and
\* every finished update's addition.
C10_NoLostUpdate ==
  (\A s \in Sessions : mpc[s] = "idle") =>
     (mprior \cup AdditionsDone) \subseteq store[SharedNs]

\* a session's update_memory call finishes in this step
UpdateFinishes(s) == mpc[s] = "revised" /\ mpc'[s] = "idle"

\* a session's get_memory call finishes in this step
GetFinishes(s) == mpc[s] \in {"gm_hit", "gm_miss"} /\ mpc'[s] = "idle"

\* C11: whatever profile the revision oracle returns, a truncating one
\* included, the value stored when update_memory finishes contains the
\* profile X that update_memory read from the namespace.
C11_RevisionKeepsProfile ==
  [][\A s \in Sessions :
       UpdateFinishes(s) => mread[s] \subseteq store'[ProfileNs(domain)]]_vars

\* C18: in every domain get_memory on a namespace with no stored profile
\* returns the default and leaves it stored; on a namespace with a stored
\* profile it returns the stored value and writes nothing.
C18_GetMemorySeeds ==
  [][\A s \in Sessions :
       GetFinishes(s) =>
         IF mpc[s] = "gm_miss"
         THEN /\ mresult'[s] = DefaultProfile(ProfileNs(domain))
              /\ ProfileNs(domain) \in DOMAIN store'
              /\ store'[ProfileNs(domain)] = DefaultProfile(ProfileNs(domain))
         ELSE /\ mresult'[s] = mread[s]
              /\ store' = store]_vars

\* C19: once a profile exists for a namespace, under any interleaving of
\* concurrent sessions its value changes only in a step that finishes an
\* update_memory call: the seeding of get_memory never replaces it.
C19_OnlyUpdateChangesProfile ==
  [][\A n \in DOMAIN store :
       store'[n] # store[n] => \E s \in Sessions : UpdateFinishes(s)]_vars

\* the namespaces of a domain's preference store
DomainNamespaces(dom) == LlmNamespaces(dom) \cup {TriageNs(dom)}

\* the assistant message that proposed the call id has been handled: the
\* handler returned and its messages follow the assistant message
Settled(id) ==
  \E k \in 1..(Len(messages) - 1) :
     /\ messages[k].role = "ai"
     /\ \E t \in 1..Len(messages[k].tool_calls) : messages[k].tool_calls[t].id = id

\* the tool-result messages of the conversation that carry the call id
ToolResults(id) ==
  {k \in 1..Len(messages) : messages[k].role = "tool" /\ messages[k].tool_call_id = id}

\* C12: when an oracle call fails inside a node (classification, next-action
\* decision, or the profile revision after an edit, ignore or response
\* decision), nothing of that node's run has taken effect: the tool log, the
\* preference store and the conversation are what they were when the run
\* began.
C12_NoPartialStep ==
  raised.what = "oracle" =>
     /\ toolLog = runStart.toolLog
     /\ store = runStart.store
     /\ messages = runStart.messages

\* C13: as long as no tool has raised, every edit, ignore or response
\* decision that the request enabled on a reviewed action has exactly one
\* update_memory call, on a namespace of the domain; an accept decision, a
\* response decision on Question and a directly executed action have none.
C13_OneUpdatePerDecision ==
  (domain # "sales" /\ raised.what # "tool") =>
     /\ \A i \in Reviewed :
          resolved[i].type \in config(resolved[i].name) =>
             Count(memLog, resolved[i].id) =
                IF MemNs(domain, resolved[i].name, resolved[i].type) # <<>> THEN 1 ELSE 0
     /\ \A j \in 1..Len(toolLog) :
          toolLog[j].name \notin hitl_tools(domain) => Count(memLog, toolLog[j].id) = 0
     /\ \A j \in 1..Len(memLog) : memLog[j].ns \in DomainNamespaces(domain)

C15_EditedMessageInPlace ==
  (lastStep.node = "interrupt_handler" /\ domain # "sales") =>
     LET n == Len(lastStep.before)
         old == lastStep.before[n]
         new == lastStep.after[n]
         ids == {old.tool_calls[t].id : t \in 1..Len(old.tool_calls)}
         edits == {i \in Reviewed : resolved[i].type = "edit" /\ resolved[i].id \in ids}
     IN /\ new.role = "ai" /\ new.id = old.id
        /\ \A i \in edits :
             \E t \in 1..Len(new.tool_calls) :
                /\ new.tool_calls[t].id = resolved[i].id
                /\ new.tool_calls[t].args = resolved[i].args
        /\ \A t \in 1..Len(old.tool_calls) :
             old.tool_calls[t].id \notin {resolved[i].id : i \in edits} =>
                \E u \in 1..Len(new.tool_calls) : new.tool_calls[u] = old.tool_calls[t]

\* C16: every proposed action whose tool was executed has its tool invoked
\* exactly once and, once the handler has returned, exactly one tool-result
\* message carrying its id in the conversation.
C16_OneResultOneInvocation ==
  \A id \in 1..used :
    Invoked(id) =>
       /\ Count(toolLog, id) = 1
       /\ Settled(id) => Cardinality(ToolResults(id)) = 1

\* C17: a tool execution that raises does not abort the session: a
\* tool-result message for the action is appended and the loop goes on.
C17_ToolErrorSoftFails ==
  raised.what = "tool" =>
     /\ pc # "error"
     /\ \/ \E k \in 1..Len(result) :
             result[k].role = "tool" /\ result[k].tool_call_id = toolLog[Len(toolLog)].id
        \/ ToolResults(toolLog[Len(toolLog)].id) # {}

AssistantMessages == {k \in 1..Len(messages) : messages[k].role = "ai"}

C21_OneInterruptOutstanding ==
  [][/\ interruptLog' # interruptLog => (~suspended /\ suspended')
     /\ suspended => /\ toolLog' = toolLog
                     /\ llmCalls' = llmCalls
                     /\ memLog' = memLog
                     /\ resolved' = resolved
                     /\ interruptLog' = interruptLog
                     /\ messages' = messages]_vars

\* the second reviewed call of one assistant message awaits its decision
\* after the first one was resolved
C21_Witness ==
  /\ suspended
  /\ pc = "interrupt_handler"
  /\ Len(LastToolCalls) = 2
  /\ \E i \in 1..Len(resolved) : resolved[i].id = LastToolCalls[1].id
  /\ interruptLog[Len(interruptLog)].id = LastToolCalls[2].id
  /\ \A i \in 1..Len(resolved) : resolved[i].id # LastToolCalls[2].id

C23_OrderScenarioCompletes ==
  (/\ domain = "sales"
   /\ trigger = "low_stock"
   /\ classification_decision = "action_required"
   /\ priority = "high") =>
     /\ pc = "error" => raised.what \in {"oracle", "tool"}
     /\ pc = END =>
          \A id \in 1..used :
            Cardinality({k \in 1..Len(messages) :
                           messages[k].role = "tool" /\ messages[k].tool_call_id = id}) = 1

\* --------------------------------------------- what the endpoint reports
\* C24: when the sales session aborts with an error, the answer of
\* /api/sales-monitor reports the failure and its cause; an answer with
\* success true carries only the classification, priority and messages the
\* session produced.
C24_ResponseReportsSession ==
  api # NoResponse =>
    /\ pc = "error" => (~api.success /\ api.error # "none")
    /\ api.success =>
         /\ api.classification = classification_decision
         /\ api.priority = priority
         /\ api.messages = [k \in 1..Len(messages) |-> messages[k].content]

\* ------------------------------------------- direct and reviewed actions
\* the interrupts sent for tool calls
ActionInterrupts ==
  {j \in 1..Len(interruptLog) : interruptLog[j].node = "interrupt_handler"}

\* C25: in the restock and forecast action loops a tool that is not in the
\* domain's HITL list is executed without any interrupt being sent for it, a
\* tool of the HITL list is never executed before a reviewer decision for
\* that call was received, and a session is suspended only from the sending
\* of an interrupt until the arrival of its decision.
C25_ReviewBeforeExecution ==
  [][domain # "sales" =>
       /\ \A j \in ActionInterrupts' : interruptLog'[j].action \in hitl_tools(domain)
       /\ \A j \in 1..Len(toolLog') :
            toolLog'[j].name \in hitl_tools(domain) =>
               \E i \in 1..Len(resolved') : resolved'[i].id = toolLog'[j].id
       /\ (toolLog' # toolLog /\ toolLog'[Len(toolLog')].name \notin hitl_tools(domain)) =>
             (interruptLog' = interruptLog /\ ~suspended /\ ~suspended')
       /\ (~suspended /\ suspended') => Len(interruptLog') = Len(interruptLog) + 1
       /\ (suspended /\ ~suspended') => Len(resume') = Len(resume) + 1
       /\ suspended' => pc' \in {"triage_interrupt_handler", "interrupt_handler"}]_vars

\* one assistant message whose first call ran directly, with no interrupt
\* sent for it, and whose second call ran after the reviewer's decision
C25_Witness ==
  /\ domain # "sales"
  /\ pc = "interrupt_handler"
  /\ Len(LastToolCalls) = 2
  /\ LastToolCalls[1].name \notin hitl_tools(domain)
  /\ LastToolCalls[2].name \in hitl_tools(domain)
  /\ Invoked(LastToolCalls[1].id)
  /\ Invoked(LastToolCalls[2].id)
  /\ \E i \in 1..Len(resolved) : resolved[i].id = LastToolCalls[2].id
  /\ \A j \in ActionInterrupts : interruptLog[j].id = LastToolCalls[2].id

\* ------------------------------------------------ the sales approval gate
\* by how many units an update_inventory_tool call changes the quantity
Adjustment(quantity, new_quantity) ==
  IF new_quantity > quantity THEN new_quantity - quantity ELSE quantity - new_quantity

\* C26: in the sales monitor's interrupt handler create_order_tool is never
\* executed without an affirmative approval, an update_inventory_tool call
\* that adjusts the item's quantity by more than 25 units is executed only
\* after an affirmative approval, and any other answer leaves the tool
\* unexecuted.
C26_SalesApprovalGate ==
  [][toolLog' # toolLog =>
       LET call == toolLog'[Len(toolLog')]
           approved == \E i \in 1..Len(resolved') :
                          /\ resolved'[i].id = call.id
                          /\ resolved'[i].type \in {"yes", "approve", "approved"}
       IN /\ call.name = "create_order_tool" => approved
          /\ (call.name = "update_inventory_tool"
                /\ Adjustment(stock, call.args) > ApprovalThreshold) => approved
          /\ (\E i \in 1..Len(resolved') : resolved'[i].id = call.id) => approved]_vars

\* --------------------------------------------------- ending on Done
\* C27: in the restock and forecast workflows a session whose oracle emits
\* Done and whose interrupts all receive allowed decisions reaches its
\* terminal state, and nothing other than Done ends the action loop.  Its
\* safety part: once an assistant message carried Done the session is not
\* back at llm_call waiting for the oracle again, and an action loop that
\* has ended did so on an assistant message carrying Done.
C27_DoneEndsLoop ==
  domain # "sales" =>
    /\ (doneSeen /\ \A i \in 1..Len(resolved) :
                      resolved[i].type \in AllowedFor(resolved[i].name)) =>
          pc # "llm_call"
    /\ (pc = END /\ llmCalls > 0) => doneSeen

\* ------------------------------------------- every call has its result
\* C28: whenever llm_call is invoked (restock, forecast), every tool call of
\* every earlier assistant message has exactly one tool-result message with
\* its tool_call_id, whatever the reviewer answered (a response type that is
\* none of accept, edit, ignore, response included) and however many tool
\* calls an assistant message carries.
C28_EveryCallAnswered ==
  (domain # "sales" /\ pc = "llm_call") =>
     \A k \in AssistantMessages :
        \A i \in 1..Len(messages[k].tool_calls) :
           Cardinality(ToolResults(messages[k].tool_calls[i].id)) = 1

\* ------------------------------------------ update_memory finds a profile
\* C29: in the restock and forecast workflows update_memory is only called
\* on a namespace that already holds a profile, seeded by get_memory in the
\* triage router or in llm_call: its read of the current profile never
\* finds the namespace empty.
C29_UpdateFindsProfile ==
  domain # "sales" =>
    /\ raised.what # "AttributeError"
    /\ \A j \in 1..Len(memLog) : memLog[j].ns \in DOMAIN store

\* one session updated the triage profile (an ignored tool call) and a
\* profile that llm_call seeded
C29_Witness ==
  /\ domain # "sales"
  /\ \E j \in 1..Len(memLog) : memLog[j].id > 0 /\ memLog[j].ns = TriageNs(domain)
  /\ \E j \in 1..Len(memLog) : memLog[j].ns \in LlmNamespaces(domain) \ {TriageNs(domain)}
  /\ raised = NotRaised

\* --------------------------------------------- purchase-order statuses
\* the status changes a stored purchase order may undergo
StatusChanges ==
  {<<"Pending Approval", "Approved - Sent to Supplier">>,
   <<"Pending Approval", "Cancelled">>,
   <<"Approved - Sent to Supplier", "Cancelled">>}

\* what a purchase-order tool returns when it refuses or fails
Refusals == {"error", "not found", "not pending", "cannot cancel"}

\* C30: over any sequence of create, approve and cancel calls a stored
\* purchase order stays stored and changes its status only from Pending
\* Approval to Approved - Sent to Supplier, from Pending Approval to
\* Cancelled or from Approved - Sent to Supplier to Cancelled; a Cancelled
\* order never changes again; a call that returns an error or not-found
\* message leaves all stored orders unchanged.
C30_OrderStatusChanges ==
  [][/\ \A n \in DOMAIN MOCK_PURCHASE_ORDERS :
          /\ n \in DOMAIN MOCK_PURCHASE_ORDERS'
          /\ \/ MOCK_PURCHASE_ORDERS'[n].status = MOCK_PURCHASE_ORDERS[n].status
             \/ <<MOCK_PURCHASE_ORDERS[n].status, MOCK_PURCHASE_ORDERS'[n].status>>
                  \in StatusChanges
          /\ MOCK_PURCHASE_ORDERS[n].status = "Cancelled" =>
                MOCK_PURCHASE_ORDERS'[n] = MOCK_PURCHASE_ORDERS[n]
     /\ observation'.kind \in Refusals => MOCK_PURCHASE_ORDERS' = MOCK_PURCHASE_ORDERS]_vars

\* an order that was approved and then cancelled has just been refused an
\* approval, next to an order that is still pending
C30_Witness ==
  /\ \E n \in DOMAIN MOCK_PURCHASE_ORDERS :
        /\ MOCK_PURCHASE_ORDERS[n].status = "Cancelled"
        /\ MOCK_PURCHASE_ORDERS[n].approval_notes # "none"
        /\ observation = [tool |-> "approve", kind |-> "not pending", po |-> n]
  /\ \E n \in DOMAIN MOCK_PURCHASE_ORDERS : MOCK_PURCHASE_ORDERS[n].status = "Pending Approval"

====
